---- MODULE Spec2Model ----
(***************************************************************************)
(* UpdateProjectForm.clean_name of canvas_editor/project_management:       *)
(* normalisation of a submitted project name, the per-owner uniqueness     *)
(* check and the symbol check, together with the stored projects the       *)
(* uniqueness check reads and the save that follows an accepted form.      *)
(*                                                                         *)
(* A string is a sequence of one-character strings.                        *)
(***************************************************************************)
EXTENDS Naturals, Sequences, FiniteSets

\* ------------------------------------------------------------------ bounds
\* Longest submitted name in SpecSeq (one request at a time).
MaxRawLen == 3
\* Longest submitted name in Spec (interleaved requests).
MaxRaceLen == 1
\* Longest submitted name in SpecNorm (an interior run of two whitespace
\* characters needs four characters).
MaxLen == 4

\* ------------------------------------------------------------- characters
Whitespace == {" ", "\t", "\n"}
\* Characters of the names submitted in Spec and SpecSeq.
Chars == {"a", "#", " "}
\* Characters of the names submitted in SpecNorm.
NormChars == {"a", "#", " ", "\t", "\n"}
\* Characters the symbol check lets through.
LegalChars == {"a", "_"}

Strs(alphabet, n) == UNION {[1..k -> alphabet] : k \in 0..n}
NormRawNames == Strs(NormChars, MaxLen)

IsSpace(c) == c \in Whitespace

\* ------------------------------------------------------- stored projects
Owners == {"o1", "o2"}
Projects == {"p1", "p2"}
Forms == {"f1", "f2"}
NoOwner == "no_owner"
NoInstance == [id |-> "none", owner |-> NoOwner, name |-> <<>>]

\* Error messages.
NoError == "none"
project_name_must_be_unique == "project_name_must_be_unique"
InvalidSymbolError == "invalid_symbol"

VARIABLES
    projects,      \* the Project table: id -> [owner, name]
    pc,            \* per form: "idle", "bound" (constructed with data), "cleaned"
    instance,      \* per form: the Project the form was constructed with (a copy)
    cleaned_data,  \* per form: cleaned_data["name"]
    errors,        \* per form: the error clean_name raised, or NoError
    calls          \* per form: the collaborator calls of its clean_name, in order

vars == <<projects, pc, instance, cleaned_data, errors, calls>>

\* The state: the stored projects and, per form, its instance, its
\* cleaned_data["name"], the error raised and the collaborator calls made.
TypeOK ==
    /\ DOMAIN projects = Projects
    /\ \A p \in Projects : projects[p].owner \in Owners /\ projects[p].name \in Seq(STRING)
    /\ pc \in [Forms -> {"idle", "bound", "cleaned"}]
    /\ \A f \in Forms :
        /\ instance[f].id \in Projects \cup {"none"}
        /\ instance[f].owner \in Owners \cup {NoOwner}
        /\ errors[f] \in {NoError, project_name_must_be_unique, InvalidSymbolError}
        /\ Len(calls[f]) <= 2
        /\ Len(cleaned_data[f]) >= 0

\* ------------------------------------------------------------ collaborators
\* project_management.views.utils.is_name_unique: no project of the owner
\* has the name.
is_name_unique(owner, name, projs) ==
    ~\E p \in Projects : projs[p].owner = owner /\ projs[p].name = name

\* project_management.forms.utils.validate_symbols: fails on a disallowed
\* character, otherwise returns the name.
validate_symbols(name) ==
    [ok |-> \A i \in 1..Len(name) : name[i] \in LegalChars, value |-> name]

UniqueCall(owner, name) == [fn |-> "is_name_unique", owner |-> owner, name |-> name]
SymbolsCall(name) == [fn |-> "validate_symbols", owner |-> NoOwner, name |-> name]

\* ---------------------------------------------------------------- clean_name
RECURSIVE lstrip(_)
lstrip(s) ==
    IF s = <<>> THEN <<>>
    ELSE IF IsSpace(Head(s)) THEN lstrip(Tail(s)) ELSE s

RECURSIVE rstrip(_)
rstrip(s) ==
    IF s = <<>> THEN <<>>
    ELSE IF IsSpace(s[Len(s)]) THEN rstrip(SubSeq(s, 1, Len(s) - 1)) ELSE s

\* str.strip()
strip(s) == rstrip(lstrip(s))

\* Variant of sub_ws: sub(r"\s+", "_", s), one underscore for a whole run.
RECURSIVE sub_ws_runs(_)
sub_ws_runs(s) ==
    IF s = <<>> THEN <<>>
    ELSE IF IsSpace(Head(s))
         THEN <<"_">> \o sub_ws_runs(lstrip(s))
         ELSE <<Head(s)>> \o sub_ws_runs(Tail(s))

\* sub(r"\s", "_", s)
sub_ws(s) == [i \in 1..Len(s) |-> IF IsSpace(s[i]) THEN "_" ELSE s[i]]

\* project_name = sub(r"\s", "_", str(...).strip())
project_name_of(raw) == sub_ws(strip(raw))

\* Variant of name_changed: the comparison with the current name left out.
name_changed_always(project_name, inst) == TRUE

\* Variant of name_changed: == written for !=.
name_changed_reversed(project_name, inst) == project_name = inst.name

\* project_name != self.instance.name
name_changed(project_name, inst) == project_name # inst.name

\* Variant of clean_name: "or" written for "and" in the condition.
clean_name_or(raw, inst, projs) ==
    LET project_name == project_name_of(raw)
        changed == project_name # inst.name
        log == IF changed THEN <<>> ELSE <<UniqueCall(inst.owner, project_name)>>
        v == validate_symbols(project_name)
    IN  IF changed \/ ~is_name_unique(inst.owner, project_name, projs)
        THEN [calls |-> log, error |-> project_name_must_be_unique, value |-> <<>>]
        ELSE [calls |-> Append(log, SymbolsCall(project_name)),
              error |-> IF v.ok THEN NoError ELSE InvalidSymbolError,
              value |-> IF v.ok THEN v.value ELSE <<>>]

\* Variant of clean_name: the symbol check made before the uniqueness check.
clean_name_symbols_first(raw, inst, projs) ==
    LET project_name == project_name_of(raw)
        checked == project_name # inst.name
        v == validate_symbols(project_name)
        first == <<SymbolsCall(project_name)>>
        log == IF checked
               THEN Append(first, UniqueCall(inst.owner, project_name))
               ELSE first
    IN  IF ~v.ok
        THEN [calls |-> first, error |-> InvalidSymbolError, value |-> <<>>]
        ELSE IF checked /\ ~is_name_unique(inst.owner, project_name, projs)
             THEN [calls |-> log, error |-> project_name_must_be_unique,
                   value |-> <<>>]
             ELSE [calls |-> log, error |-> NoError, value |-> v.value]

\* Variant of clean_name: the uniqueness check asked about the name as
\* submitted instead of the normalized one.
clean_name_raw_query(raw, inst, projs) ==
    LET project_name == project_name_of(raw)
        checked == project_name # inst.name
        log == IF checked THEN <<UniqueCall(inst.owner, raw)>> ELSE <<>>
        v == validate_symbols(project_name)
    IN  IF checked /\ ~is_name_unique(inst.owner, raw, projs)
        THEN [calls |-> log, error |-> project_name_must_be_unique, value |-> <<>>]
        ELSE [calls |-> Append(log, SymbolsCall(project_name)),
              error |-> IF v.ok THEN NoError ELSE InvalidSymbolError,
              value |-> IF v.ok THEN v.value ELSE <<>>]

\* Variant of clean_name: an unchanged name returned at once, unchecked.
clean_name_accept_current(raw, inst, projs) ==
    LET project_name == project_name_of(raw)
        checked == project_name # inst.name
        log == <<UniqueCall(inst.owner, project_name)>>
        v == validate_symbols(project_name)
    IN  IF ~checked
        THEN [calls |-> <<>>, error |-> NoError, value |-> project_name]
        ELSE IF ~is_name_unique(inst.owner, project_name, projs)
             THEN [calls |-> log, error |-> project_name_must_be_unique,
                   value |-> <<>>]
             ELSE [calls |-> Append(log, SymbolsCall(project_name)),
                   error |-> IF v.ok THEN NoError ELSE InvalidSymbolError,
                   value |-> IF v.ok THEN v.value ELSE <<>>]

\* Variant of clean_name: project_name returned without the symbol check.
clean_name_no_symbols(raw, inst, projs) ==
    LET project_name == project_name_of(raw)
        checked == project_name # inst.name
        log == IF checked THEN <<UniqueCall(inst.owner, project_name)>> ELSE <<>>
    IN  IF checked /\ ~is_name_unique(inst.owner, project_name, projs)
        THEN [calls |-> log, error |-> project_name_must_be_unique, value |-> <<>>]
        ELSE [calls |-> log, error |-> NoError, value |-> project_name]

\* Variant of clean_name: a name another open form holds accepted for the
\* same owner counts as taken.
clean_name_reserving(raw, inst, projs) ==
    LET project_name == project_name_of(raw)
        checked == project_name # inst.name
        log == IF checked THEN <<UniqueCall(inst.owner, project_name)>> ELSE <<>>
        v == validate_symbols(project_name)
        held == \E g \in Forms :
                    /\ pc[g] = "cleaned" /\ errors[g] = NoError
                    /\ instance[g].id # inst.id
                    /\ instance[g].owner = inst.owner
                    /\ cleaned_data[g] = project_name
    IN  IF checked /\ (held \/ ~is_name_unique(inst.owner, project_name, projs))
        THEN [calls |-> log, error |-> project_name_must_be_unique, value |-> <<>>]
        ELSE [calls |-> Append(log, SymbolsCall(project_name)),
              error |-> IF v.ok THEN NoError ELSE InvalidSymbolError,
              value |-> IF v.ok THEN v.value ELSE <<>>]

\* The whole of clean_name: the calls it makes in order, the error it raises
\* (or NoError) and the value it returns.
clean_name(raw, inst, projs) ==
    LET project_name == project_name_of(raw)
        checked == name_changed(project_name, inst)
        log == IF checked THEN <<UniqueCall(inst.owner, project_name)>> ELSE <<>>
        v == validate_symbols(project_name)
    IN  IF checked /\ ~is_name_unique(inst.owner, project_name, projs)
        THEN [calls |-> log, error |-> project_name_must_be_unique, value |-> <<>>]
        ELSE [calls |-> Append(log, SymbolsCall(project_name)),
              error |-> IF v.ok THEN NoError ELSE InvalidSymbolError,
              value |-> IF v.ok THEN v.value ELSE <<>>]

\* ------------------------------------------------------------------ actions
\* UpdateProjectForm(data, instance=project)
Bind(f, raw, p) ==
    /\ pc[f] = "idle"
    /\ pc' = [pc EXCEPT ![f] = "bound"]
    /\ instance' = [instance EXCEPT
                      ![f] = [id |-> p, owner |-> projects[p].owner,
                              name |-> projects[p].name]]
    /\ cleaned_data' = [cleaned_data EXCEPT ![f] = raw]
    /\ UNCHANGED <<projects, errors, calls>>

\* Variant of CleanName: the accepted name written to the stored project.
CleanName_saving(f) ==
    /\ pc[f] = "bound"
    /\ LET res == clean_name(cleaned_data[f], instance[f], projects)
       IN  /\ cleaned_data' = [cleaned_data EXCEPT ![f] = res.value]
           /\ errors' = [errors EXCEPT ![f] = res.error]
           /\ calls' = [calls EXCEPT ![f] = res.calls]
           /\ projects' = IF res.error = NoError
                          THEN [projects EXCEPT ![instance[f].id].name = res.value]
                          ELSE projects
    /\ pc' = [pc EXCEPT ![f] = "cleaned"]
    /\ UNCHANGED instance

\* form.is_valid() running clean_name
CleanName(f) ==
    /\ pc[f] = "bound"
    /\ LET res == clean_name(cleaned_data[f], instance[f], projects)
       IN  /\ cleaned_data' = [cleaned_data EXCEPT ![f] = res.value]
           /\ errors' = [errors EXCEPT ![f] = res.error]
           /\ calls' = [calls EXCEPT ![f] = res.calls]
    /\ pc' = [pc EXCEPT ![f] = "cleaned"]
    /\ UNCHANGED <<projects, instance>>

Reset(f) ==
    /\ pc' = [pc EXCEPT ![f] = "idle"]
    /\ instance' = [instance EXCEPT ![f] = NoInstance]
    /\ cleaned_data' = [cleaned_data EXCEPT ![f] = <<>>]
    /\ errors' = [errors EXCEPT ![f] = NoError]
    /\ calls' = [calls EXCEPT ![f] = <<>>]

\* form.save() after an accepted form
Save(f) ==
    /\ pc[f] = "cleaned"
    /\ errors[f] = NoError
    /\ projects' = [projects EXCEPT ![instance[f].id].name = cleaned_data[f]]
    /\ Reset(f)

\* a rejected form is shown again with its error
Reject(f) ==
    /\ pc[f] = "cleaned"
    /\ errors[f] # NoError
    /\ UNCHANGED projects
    /\ Reset(f)

\* ----------------------------------------------------------- specifications
\* Submitted names: every string over Chars up to the bound, and every name
\* normalisation makes of one (a name shown back to the user and submitted
\* again).
Submitted(n) ==
    LET S == Strs(Chars, n) IN S \cup {project_name_of(s) : s \in S}
RawNames == Submitted(MaxRawLen)
RaceNames == Submitted(MaxRaceLen)

\* Names of the projects stored before the first request; nothing but this
\* form keeps a stored name within LegalChars.
InitNames == {<<"a">>, <<"#">>}

UniquePerOwner(projs) ==
    \A p, q \in Projects :
        (p # q /\ projs[p].owner = projs[q].owner) => projs[p].name # projs[q].name

InitProjects ==
    {ps \in [Projects -> [owner : Owners, name : InitNames]] :
        ps["p1"].owner = "o1" /\ UniquePerOwner(ps)}

IdleForms ==
    /\ pc = [f \in Forms |-> "idle"]
    /\ instance = [f \in Forms |-> NoInstance]
    /\ cleaned_data = [f \in Forms |-> <<>>]
    /\ errors = [f \in Forms |-> NoError]
    /\ calls = [f \in Forms |-> <<>>]

Init ==
    /\ projects \in InitProjects
    /\ IdleForms

\* A request opens a form on any project with any submitted name.
Submit(f) ==
    /\ pc[f] = "idle"
    /\ \E raw \in RaceNames, p \in Projects : Bind(f, raw, p)

Next ==
    \E f \in Forms :
        \/ Submit(f)
        \/ CleanName(f)
        \/ Save(f)
        \/ Reject(f)

\* Requests interleave freely.
Spec == Init /\ [][Next]_vars

\* One request at a time: a form is constructed only when no other is open.
SubmitSeq(f) ==
    /\ \A g \in Forms : pc[g] = "idle"
    /\ \E raw \in RawNames, p \in Projects : Bind(f, raw, p)

NextSeq ==
    \E f \in Forms :
        \/ SubmitSeq(f)
        \/ CleanName(f)
        \/ Save(f)
        \/ Reject(f)

SpecSeq == Init /\ [][NextSeq]_vars

\* clean_name applied to every name of NormRawNames.
InitNorm ==
    /\ projects \in InitProjects
    /\ pc = [f \in Forms |-> IF f = "f1" THEN "bound" ELSE "idle"]
    /\ \E raw \in NormRawNames, p \in Projects :
        /\ instance = [f \in Forms |->
                         IF f = "f1"
                         THEN [id |-> p, owner |-> projects[p].owner,
                               name |-> projects[p].name]
                         ELSE NoInstance]
        /\ cleaned_data = [f \in Forms |-> IF f = "f1" THEN raw ELSE <<>>]
    /\ errors = [f \in Forms |-> NoError]
    /\ calls = [f \in Forms |-> <<>>]

NextNorm == \E f \in Forms : CleanName(f)

SpecNorm == InitNorm /\ [][NextNorm]_vars

\* ------------------------------------------------------------------ claims
\* A step in which form f runs clean_name.
CleanStep(f) == pc[f] = "bound" /\ pc'[f] = "cleaned"

\* The name clean_name of form f is about to work on, and whether a stored
\* project of the instance's owner has it.
Norm(f) == project_name_of(cleaned_data[f])
Taken(f) ==
    \E p \in Projects :
        projects[p].owner = instance[f].owner /\ projects[p].name = Norm(f)

\* The name form f's clean_name handed to its collaborators.
Handed(f) == calls[f][1].name
Queried(f) == \E i \in 1..Len(calls[f]) : calls[f][i].fn = "is_name_unique"

\* s without its leading and trailing whitespace.
Trimmed(s) ==
    LET keep == {i \in 1..Len(s) : s[i] \notin Whitespace}
    IN  IF keep = {} THEN <<>>
        ELSE SubSeq(s, CHOOSE i \in keep : \A j \in keep : i <= j,
                       CHOOSE i \in keep : \A j \in keep : i >= j)

\* s with every maximal run of whitespace replaced by one underscore.
RECURSIVE RunsToUnderscore(_)
RunsToUnderscore(s) ==
    IF s = <<>> THEN <<>>
    ELSE IF Head(s) \in Whitespace
         THEN IF Len(s) > 1 /\ s[2] \in Whitespace
              THEN RunsToUnderscore(Tail(s))
              ELSE <<"_">> \o RunsToUnderscore(Tail(s))
         ELSE <<Head(s)>> \o RunsToUnderscore(Tail(s))

\* C1 as stated: the normalized name is the raw name trimmed, with every
\* maximal run of whitespace replaced by exactly one underscore.
C1_RunsCollapse ==
    [][\A f \in Forms :
         CleanStep(f) =>
            calls'[f][1].name = RunsToUnderscore(Trimmed(cleaned_data[f]))]_vars

\* C1 amended: the normalized name is the raw name trimmed, with every
\* whitespace character replaced by one underscore of its own, so a run of k
\* whitespace characters yields k underscores.
C1_EachWhitespace ==
    [][\A f \in Forms :
         CleanStep(f) =>
            LET t == Trimmed(cleaned_data[f])
                n == calls'[f][1].name
            IN  /\ Len(n) = Len(t)
                /\ \A i \in 1..Len(t) :
                     n[i] = IF t[i] \in Whitespace THEN "_" ELSE t[i]]_vars

\* A name with two adjacent underscores came out of clean_name (the names
\* submitted in SpecNorm have no underscore: they stand for two adjacent
\* whitespace characters).
C1_Witness ==
    \E f \in Forms :
        /\ pc[f] = "cleaned"
        /\ \E i \in 1..(Len(Handed(f)) - 1) :
             Handed(f)[i] = "_" /\ Handed(f)[i + 1] = "_"

\* C2 as stated: a name the symbol check rejects always fails with the symbol
\* check's error, whatever the uniqueness check answers.
C2_AlwaysSymbolError ==
    [][\A f \in Forms :
         (CleanStep(f) /\ ~validate_symbols(Norm(f)).ok) =>
            errors'[f] = InvalidSymbolError]_vars

\* C2 amended: a name the symbol check rejects is never accepted; it fails
\* with the duplicate error when it differs from the current name and is
\* taken, and with the symbol check's error otherwise.
C2_RejectedEitherWay ==
    [][\A f \in Forms :
         (CleanStep(f) /\ ~validate_symbols(Norm(f)).ok) =>
            errors'[f] = IF Norm(f) # instance[f].name /\ Taken(f)
                         THEN project_name_must_be_unique
                         ELSE InvalidSymbolError]_vars

\* A changed name passed the uniqueness check and failed the symbol check.
C2_Witness ==
    \E f \in Forms :
        /\ pc[f] = "cleaned"
        /\ errors[f] = InvalidSymbolError
        /\ Queried(f)

\* C3: when the normalized name equals the instance's name, the uniqueness
\* check is not called and the duplicate error is not raised.
C3_SelfExclusion ==
    [][\A f \in Forms :
         (CleanStep(f) /\ Norm(f) = instance[f].name) =>
            /\ errors'[f] # project_name_must_be_unique
            /\ \A i \in 1..Len(calls'[f]) : calls'[f][i].fn # "is_name_unique"]_vars

\* clean_name ran on the instance's own (stored) name without a query.
C3_Witness ==
    \E f \in Forms :
        /\ pc[f] = "cleaned"
        /\ ~Queried(f)
        /\ Handed(f) = instance[f].name
        /\ projects[instance[f].id].name = instance[f].name

\* C4: the duplicate error is raised exactly when the normalized name differs
\* from the instance's name and a project of the owner already has it.
C4_DuplicateIff ==
    [][\A f \in Forms :
         CleanStep(f) =>
            (errors'[f] = project_name_must_be_unique
                <=> (Norm(f) # instance[f].name /\ Taken(f)))]_vars

\* A form failed with the duplicate error.
C4_Witness ==
    \E f \in Forms :
        /\ pc[f] = "cleaned"
        /\ errors[f] = project_name_must_be_unique
        /\ Handed(f) # instance[f].name

\* C5: a call that does not raise the duplicate error ends as the symbol
\* check on the normalized name ends: its value returned, its error raised.
C5_PassThrough ==
    [][\A f \in Forms :
         (CleanStep(f) /\ errors'[f] # project_name_must_be_unique) =>
            LET v == validate_symbols(Norm(f))
            IN  IF v.ok
                THEN errors'[f] = NoError /\ cleaned_data'[f] = v.value
                ELSE errors'[f] = InvalidSymbolError]_vars

\* A legal name, new to the owner and different from the current one, was
\* returned.
C5_Witness ==
    \E f \in Forms :
        /\ pc[f] = "cleaned"
        /\ errors[f] = NoError
        /\ Queried(f)
        /\ cleaned_data[f] = Handed(f)
        /\ cleaned_data[f] # instance[f].name

\* The names clean_name can return.
AcceptedNames ==
    {n \in {project_name_of(s) : s \in RawNames} : validate_symbols(n).ok}

\* C6: submitting an accepted name again for the project that has it returns
\* it unchanged without a uniqueness query.
C6_Idempotent ==
    [][\A f \in Forms :
         (/\ CleanStep(f)
          /\ cleaned_data[f] \in AcceptedNames
          /\ cleaned_data[f] = instance[f].name) =>
            /\ errors'[f] = NoError
            /\ cleaned_data'[f] = cleaned_data[f]
            /\ \A i \in 1..Len(calls'[f]) : calls'[f][i].fn # "is_name_unique"]_vars

\* A saved name with an underscore was submitted again and returned.
C6_Witness ==
    \E f \in Forms :
        /\ pc[f] = "cleaned"
        /\ errors[f] = NoError
        /\ cleaned_data[f] = instance[f].name
        /\ instance[f].name \notin InitNames
        /\ \E i \in 1..Len(cleaned_data[f]) : cleaned_data[f][i] = "_"

\* C7: with one request at a time, no two projects of an owner share a name.
C7_UniquePerOwner == UniquePerOwner(projects)

\* Both projects of one owner have been renamed.
C7_Witness ==
    /\ projects["p1"].owner = projects["p2"].owner
    /\ projects["p1"].name \notin InitNames
    /\ projects["p2"].name \notin InitNames

\* C8: clean_name takes no account of names other requests hold accepted but
\* unsaved: a legal name no stored project of the owner has is accepted even
\* while another form holds the same name for the same owner.
C8_NoReservation ==
    [][\A f, g \in Forms :
         (/\ f # g
          /\ CleanStep(f)
          /\ pc[g] = "cleaned" /\ errors[g] = NoError
          /\ instance[g].owner = instance[f].owner
          /\ cleaned_data[g] = Norm(f)
          /\ ~Taken(f)
          /\ validate_symbols(Norm(f)).ok) =>
            errors'[f] = NoError /\ cleaned_data'[f] = cleaned_data[g]]_vars

\* Two forms for two projects of one owner both hold the same new name
\* accepted, each after its own uniqueness query, and neither has saved.
C8_Witness ==
    /\ pc["f1"] = "cleaned" /\ pc["f2"] = "cleaned"
    /\ errors["f1"] = NoError /\ errors["f2"] = NoError
    /\ Queried("f1") /\ Queried("f2")
    /\ instance["f1"].id # instance["f2"].id
    /\ instance["f1"].owner = instance["f2"].owner
    /\ cleaned_data["f1"] = cleaned_data["f2"]
    /\ \A p \in Projects : projects[p].name # cleaned_data["f1"]

\* C9: clean_name leaves the stored projects and the form's instance as they
\* were, whatever its outcome.
C9_NoMutation ==
    [][\A f \in Forms :
         CleanStep(f) => (projects' = projects /\ instance'[f] = instance[f])]_vars

\* A new name was accepted for a project whose stored name the symbol check
\* rejects, and the stored project still has the old name and owner.
C9_Witness ==
    \E f \in Forms :
        /\ pc[f] = "cleaned"
        /\ errors[f] = NoError
        /\ ~validate_symbols(instance[f].name).ok
        /\ projects[instance[f].id].name = instance[f].name
        /\ projects[instance[f].id].owner = instance[f].owner

\* C10: the uniqueness check is called at most once, first, with the
\* instance's owner and the normalized name; the symbol check at most once,
\* last, on the normalized name, directly only when the name is unchanged,
\* and not at all in a call that raises the duplicate error.
C10_CallOrder ==
    [][\A f \in Forms :
         CleanStep(f) =>
            LET n == Norm(f)
                u == UniqueCall(instance[f].owner, n)
                v == SymbolsCall(n)
            IN  /\ calls'[f] \in {<<v>>, <<u, v>>, <<u>>}
                /\ (calls'[f] = <<v>>) => (n = instance[f].name)
                /\ (calls'[f] = <<u>>)
                     <=> (errors'[f] = project_name_must_be_unique)]_vars

\* Both collaborators were called, in order, on a normalized name that has an
\* underscore.
C10_Witness ==
    \E f \in Forms :
        /\ pc[f] = "cleaned"
        /\ Len(calls[f]) = 2
        /\ calls[f][1].fn = "is_name_unique" /\ calls[f][2].fn = "validate_symbols"
        /\ calls[f][1].owner = instance[f].owner
        /\ \E i \in 1..Len(Handed(f)) : Handed(f)[i] = "_"

====
